---- MODULE Spec2Model ----
(***************************************************************************)
(* A model of the QA-Prolog front end and Verilog back end:                *)
(*   - preproc (RejectUnimplemented, FindByType, AtomNames, MaxNumeral),   *)
(*   - main (the driver that validates the AST and prints its summary),    *)
(*   - verilog (numToVerVar, args, toVerilogExpr, process, writeClause*,   *)
(*     writeSymbols, WriteVerilog).                                        *)
(* Go strings are TLA+ strings; an io.Writer is the sequence of the lines  *)
(* written to it; notify.Fatal / ParseError end the process and are        *)
(* modelled by a non-empty fatal message that every caller propagates.     *)
(***************************************************************************)
EXTENDS Integers, Sequences, FiniteSets, TLC

VARIABLES
    pc,       \* position of the process
    ast,      \* main: the parsed AST
    stderr,   \* main: lines written to os.Stderr
    stdout,   \* main: lines written to os.Stdout
    exit,     \* process exit status (-1 while running)
    p,        \* WriteVerilog: the Parameters
    w,        \* WriteVerilog: lines written to the io.Writer
    todo,     \* WriteVerilog: keys of p.TopLevel the range loop has not visited
    prev,     \* output of the previous WriteVerilog run on the same inputs
    n,        \* numToVerVar: its argument
    node,     \* toVerilogExpr: its receiver
    p2v,      \* toVerilogExpr: its substitution map
    res       \* result of the pure function under test

vars == <<pc, ast, stderr, stdout, exit, p, w, todo, prev, n, node, p2v, res>>

-----------------------------------------------------------------------------
(* Bounds of the model. *)

MaxParam == 705        \* largest parameter number handed to numToVerVar
MaxArity == 3          \* formal arguments of a clause compiled on its own
MaxClauses == 2        \* clauses of a program with several clauses
GroupArity == 1        \* formal arguments in a program with several clauses
MaxKids == 2           \* formal arguments of a clause of main's AST
ExprDepth == 2         \* nesting depth of the trees handed to toVerilogExpr

-----------------------------------------------------------------------------
(* Strings. *)

NoFatal == ""

LowerCase == "abcdefghijklmnopqrstuvwxyz"
UpperCase == "ABCDEFGHIJKLMNOPQRSTUVWXYZ"
Digits == "0123456789"

CharAt(s, i) == SubSeq(s, i, i)

HasPrefix(str, pre) == Len(str) >= Len(pre) /\ SubSeq(str, 1, Len(pre)) = pre

\* The grave accent that prefixes a Verilog macro name.
Backtick == SubSeq("`'", 1, 1)

\* A character of a string stands for one byte of the Go string.  Bytes is
\* the bytes 1..255 in ascending order: the control bytes, the printable
\* ASCII bytes, and the bytes 128..255 written as the characters U+0080 to
\* U+00FF.  The one byte that is not in it is 0.
Bytes ==
    "\t\n\f\r"
    \o " !\"#$%&'()*+,-./" \o Digits \o ":;<=>?@" \o UpperCase
    \o "[\\]^_" \o Backtick \o LowerCase \o "{|}~"
    \o " ¡¢£¤¥¦§¨©ª«¬­®¯°±²³´µ¶·¸¹º»¼½¾¿ÀÁÂÃÄÅÆÇÈÉÊËÌÍÎÏÐÑÒÓÔÕÖ×ØÙÚÛÜÝÞßàáâãäåæçèéêëìíîïðñòóôõö÷øùúûüýþÿ"

RuneOf == [c \in {CharAt(Bytes, i) : i \in 1..Len(Bytes)} |->
              CHOOSE i \in 1..Len(Bytes) : CharAt(Bytes, i) = c]

\* rune(b) for a byte b of a string: the code point with the value of b.
Rune(c) == IF c \in DOMAIN RuneOf THEN RuneOf[c] ELSE 0

RECURSIVE StrLess(_, _)
StrLess(a, b) ==
    IF Len(a) = 0 THEN Len(b) > 0
    ELSE IF Len(b) = 0 THEN FALSE
    ELSE IF CharAt(a, 1) = CharAt(b, 1)
         THEN StrLess(SubSeq(a, 2, Len(a)), SubSeq(b, 2, Len(b)))
         ELSE Rune(CharAt(a, 1)) < Rune(CharAt(b, 1))

RECURSIVE Itoa(_)
Itoa(i) ==
    IF i < 10 THEN CharAt(Digits, i + 1)
    ELSE Itoa(i \div 10) \o CharAt(Digits, (i % 10) + 1)

RECURSIVE Spaces(_)
Spaces(k) == IF k <= 0 THEN "" ELSE " " \o Spaces(k - 1)

\* utf8.DecodeRuneInString at byte i of s: the width of the encoding that
\* starts there, 1 for an ASCII byte and for a byte that starts none.
ByteAt(s, i) == IF i <= Len(s) THEN Rune(CharAt(s, i)) ELSE 0

Cont(s, i) == i <= Len(s) /\ ByteAt(s, i) \in 128..191

Width(s, i) ==
    LET b0 == ByteAt(s, i)
        b1 == ByteAt(s, i + 1)
    IN  CASE b0 \in 194..223 /\ Cont(s, i + 1) -> 2
          [] b0 = 224 /\ b1 \in 160..191 /\ Cont(s, i + 2) -> 3
          [] b0 \in (225..236) \cup (238..239) /\ Cont(s, i + 1) /\ Cont(s, i + 2) -> 3
          [] b0 = 237 /\ b1 \in 128..159 /\ Cont(s, i + 2) -> 3
          [] b0 = 240 /\ b1 \in 144..191 /\ Cont(s, i + 2) /\ Cont(s, i + 3) -> 4
          [] b0 \in 241..243 /\ Cont(s, i + 1) /\ Cont(s, i + 2) /\ Cont(s, i + 3) -> 4
          [] b0 = 244 /\ b1 \in 128..143 /\ Cont(s, i + 2) /\ Cont(s, i + 3) -> 4
          [] OTHER -> 1

\* utf8.RuneCountInString from byte i on: fmt pads a string to a width in
\* runes, and a byte that starts no encoding counts as one.
RECURSIVE RuneCount(_, _)
RuneCount(s, i) == IF i > Len(s) THEN 0 ELSE 1 + RuneCount(s, i + Width(s, i))

\* A width given by * that fmt refuses: the verb is then written without
\* a width, after the text BadWidth.
tooLarge(width) == width > 1000000 \/ width < -1000000
BadWidth == "%!(BADWIDTH)"

\* %*d on the decimal text s of an integer.
PadLeft(s, width) ==
    IF tooLarge(width) THEN BadWidth \o s
    ELSE Spaces(width - RuneCount(s, 1)) \o s

\* %-*s on the string s.
PadRight(s, width) ==
    IF tooLarge(width) THEN BadWidth \o s
    ELSE s \o Spaces(width - RuneCount(s, 1))

\* unicode.IsLower, unicode.IsDigit and unicode.IsUpper on the code points
\* 0..255, the runes a single byte converts to.
IsLower(r) == r \in (97..122) \cup {181} \cup (223..246) \cup (248..255)
IsDigit(r) == r \in 48..57
IsUpper(r) == r \in (65..90) \cup (192..214) \cup (216..222)

\* A Go runtime panic, carried as the message that ends the process.
IndexPanic(i, len) ==
    "panic: runtime error: index out of range [" \o Itoa(i)
    \o "] with length " \o Itoa(len)

SlicePanic(low, len) ==
    "panic: runtime error: slice bounds out of range [" \o Itoa(low)
    \o ":" \o Itoa(len) \o "]"

\* The failed type assertion v.(want) on the payload v.
ConversionPanic(v, want) ==
    "panic: interface conversion: interface {} is " \o v.type \o ", not " \o want

IsPanic(msg) == HasPrefix(msg, "panic: ")

\* notify.Fatal exits with status 1, a panic with status 2.
ExitStatus(msg) == IF IsPanic(msg) THEN 2 ELSE 1

\* What the end of the process leaves on os.Stderr.  notify.Fatal writes the
\* message under the logger's prefix; with a %#v operand (dump) the line goes
\* on with the Go-syntax form of that value.  A panic is reported by the
\* runtime: the message, then the trace of the goroutine.
Diagnostic(prog, msg, dump) ==
    IF IsPanic(msg) THEN [panic |-> msg, trace |-> "goroutine 1 [running]:"]
    ELSE IF Len(dump) = 0 THEN prog \o ": " \o msg
    ELSE [text |-> prog \o ": " \o msg, gosyntax |-> dump[1]]

\* The operand of a %q verb of notify.Fatalf and the text that follows it;
\* the message is the text up to the verb.
Quoted(operand, rest) == <<[operand |-> operand, rest |-> rest]>>

\* The line of a notify.Fatalf whose format has a %q verb: the text up to
\* the verb, the operand that strconv.Quote renders, and the rest.
FatalLine(prog, msg, quoted) ==
    IF Len(quoted) = 0 THEN Diagnostic(prog, msg, <<>>)
    ELSE [text |-> prog \o ": " \o msg, verb |-> "%q",
          operand |-> quoted[1].operand, rest |-> quoted[1].rest]

-----------------------------------------------------------------------------
(* verilog: numToVerVar *)

chars == "ABCDEFGHIJKLMNOPQRSTUVWXYZ"
nChars == 26

numToVerVarSwapped(k) ==
    IF k < nChars
    THEN [s |-> "$" \o CharAt(chars, k + 1), fatal |-> NoFatal]
    ELSE IF k < nChars * (nChars + 1)
    THEN [s |-> "$" \o CharAt(chars, (k % nChars) + 1)
                    \o CharAt(chars, k \div nChars),
          fatal |-> NoFatal]
    ELSE [s |-> "", fatal |-> "Too many parameters"]

numToVerVar(k) ==
    IF k < nChars
    THEN [s |-> "$" \o CharAt(chars, k + 1), fatal |-> NoFatal]
    ELSE IF k < nChars * (nChars + 1)
    THEN [s |-> "$" \o CharAt(chars, k \div nChars)
                    \o CharAt(chars, (k % nChars) + 1),
          fatal |-> NoFatal]
    ELSE [s |-> "", fatal |-> "Too many parameters"]


-----------------------------------------------------------------------------
(* The AST.  A node is a record: Type (the tag), Value (the payload, tagged *)
(* with its dynamic type), Text (the source text), Pos and Children.        *)

StrVal(s) == [type |-> "string", str |-> s, int |-> 0]
IntVal(i) == [type |-> "int", str |-> "", int |-> i]
NoVal == [type |-> "nil", str |-> "", int |-> 0]

Position(l, c) == [line |-> l, col |-> c]

ASTNode(t, v, txt, pos, kids) ==
    [Type |-> t, Value |-> v, Text |-> txt, Pos |-> pos, Children |-> kids]

RECURSIVE ConcatAll(_)
ConcatAll(ss) == IF Len(ss) = 0 THEN <<>> ELSE Head(ss) \o ConcatAll(Tail(ss))

-----------------------------------------------------------------------------
(* preproc: FindByType, RejectUnimplemented *)

\* walker, and its loop over the children from child i on.
RECURSIVE walker(_, _)
RECURSIVE walkKids(_, _, _)
walker(a, t) ==
    (IF a.Type = t THEN <<a>> ELSE <<>>) \o walkKids(a.Children, 1, t)
walkKids(kids, i, t) ==
    IF i > Len(kids) THEN <<>>
    ELSE walker(kids[i], t) \o walkKids(kids, i + 1, t)

FindByType(a, t) == walker(a, t)

\* ParseError as main installs it: one line on os.Stderr, then os.Exit(1).
ParseError(file, pos, msg) ==
    file \o ":" \o Itoa(pos.line) \o ":" \o Itoa(pos.col) \o ": " \o msg

\* The lines RejectUnimplemented makes ParseError write before the process
\* exits; empty when the AST is accepted.
RejectUnimplementedStructFirst(a, file) ==
    LET l == FindByType(a, "List")
        s == FindByType(a, "Structure")
    IN  IF Len(s) > 0
        THEN <<ParseError(file, s[1].Pos, "Structures are not currently supported")>>
        ELSE IF Len(l) > 0
        THEN <<ParseError(file, l[1].Pos, "Lists are not currently supported")>>
        ELSE <<>>

RejectUnimplemented(a, file) ==
    LET l == FindByType(a, "List")
        s == FindByType(a, "Structure")
    IN  IF Len(l) > 0
        THEN <<ParseError(file, l[1].Pos, "Lists are not currently supported")>>
        ELSE IF Len(s) > 0
        THEN <<ParseError(file, s[1].Pos, "Structures are not currently supported")>>
        ELSE <<>>

-----------------------------------------------------------------------------
(* preproc: AtomNames, uniqueAtomNames, MaxNumeral *)

\* The set of names after uniqueAtomNames has run on a, starting from the
\* set names; the loop over the children starts at child i.
RECURSIVE uniqueAtomNames(_, _)
RECURSIVE uniqueKidNames(_, _, _)
uniqueAtomNames(a, names) ==
    LET own == IF a.Type = "Atom"
               THEN IF a.Value.type = "string"
                    THEN [names |-> names \cup {a.Value.str}, fatal |-> NoFatal,
                          dump |-> <<>>]
                    ELSE [names |-> names, fatal |-> "Internal error parsing ",
                          dump |-> <<a>>]
               ELSE [names |-> names, fatal |-> NoFatal, dump |-> <<>>]
    IN  IF own.fatal # NoFatal THEN own
        ELSE IF a.Type = "Clause" /\ Len(a.Children) = 0
        THEN [names |-> own.names, fatal |-> SlicePanic(1, 0), dump |-> <<>>]
        ELSE uniqueKidNames(a.Children, IF a.Type = "Clause" THEN 2 ELSE 1,
                            own.names)
uniqueKidNames(kids, i, names) ==
    IF i > Len(kids) THEN [names |-> names, fatal |-> NoFatal, dump |-> <<>>]
    ELSE LET one == uniqueAtomNames(kids[i], names)
         IN  IF one.fatal # NoFatal THEN one
             ELSE uniqueKidNames(kids, i + 1, one.names)

RECURSIVE SortStrings(_)
SortStrings(S) ==
    IF S = {} THEN <<>>
    ELSE LET m == CHOOSE x \in S : \A y \in S \ {x} : StrLess(x, y)
         IN  <<m>> \o SortStrings(S \ {m})

AtomNames(a) ==
    LET u == uniqueAtomNames(a, {})
    IN  [list |-> SortStrings(u.names), fatal |-> u.fatal, dump |-> u.dump]

Max(a, b) == IF a > b THEN a ELSE b

\* MaxNumeral, and its loop over the children from child i on with the
\* maximum so far.
RECURSIVE MaxNumeral(_)
RECURSIVE maxOfKids(_, _, _)
MaxNumeral(a) ==
    IF a.Type = "Numeral" /\ a.Value.type # "int"
    THEN [max |-> 0, fatal |-> ConversionPanic(a.Value, "int")]
    ELSE maxOfKids(a.Children, 1,
                   IF a.Type = "Numeral" /\ a.Value.int > 0 THEN a.Value.int ELSE 0)
maxOfKids(kids, i, max) ==
    IF i > Len(kids) THEN [max |-> max, fatal |-> NoFatal]
    ELSE LET m == MaxNumeral(kids[i])
         IN  IF m.fatal # NoFatal THEN m
             ELSE maxOfKids(kids, i + 1, Max(m.max, max))

-----------------------------------------------------------------------------
(* verilog: args *)

Ok(s) == [s |-> s, fatal |-> NoFatal, quoted |-> <<>>]
Fail(msg) == [s |-> "", fatal |-> msg, quoted |-> <<>>]
FailQuoted(msg, operand, rest) ==
    [s |-> "", fatal |-> msg, quoted |-> Quoted(operand, rest)]

\* The first fatal message of a sequence of results, NoFatal if none.
RECURSIVE FirstFatal(_)
FirstFatal(rs) ==
    IF Len(rs) = 0 THEN NoFatal
    ELSE IF Head(rs).fatal # NoFatal THEN Head(rs).fatal
    ELSE FirstFatal(Tail(rs))

\* The %q operand that goes with FirstFatal(rs).
RECURSIVE FirstQuoted(_)
FirstQuoted(rs) ==
    IF Len(rs) = 0 THEN <<>>
    ELSE IF Head(rs).fatal # NoFatal THEN Head(rs).quoted
    ELSE FirstQuoted(Tail(rs))

args(c) ==
    LET pred == c.Children[1]
        terms == Tail(pred.Children)
        vs == [i \in 1..Len(terms) |-> numToVerVar(i - 1)]
    IN  IF Len(c.Children) = 0
        THEN [pArgs |-> <<>>, vArgs |-> <<>>, fatal |-> IndexPanic(0, 0)]
        ELSE IF Len(pred.Children) = 0
        THEN [pArgs |-> <<>>, vArgs |-> <<>>, fatal |-> SlicePanic(1, 0)]
        ELSE [pArgs |-> [i \in 1..Len(terms) |-> terms[i].Text],
              vArgs |-> [i \in 1..Len(terms) |-> vs[i].s],
              fatal |-> FirstFatal(vs)]

-----------------------------------------------------------------------------
(* verilog: the operator tables and toVerilogExpr *)

prologToVerilogUnary == [x \in {"-"} |-> "-"]

prologToVerilogAdd == [x \in {"+", "-"} |-> x]

prologToVerilogMult == [x \in {"*"} |-> "*"]

prologToVerilogRel ==
    [x \in {"<=", ">=", "<", ">", "=", "\\=", "is"} |->
        CASE x = "=" -> "=="
          [] x = "\\=" -> "!="
          [] x = "is" -> "=="
          [] OTHER -> x]

\* The result r of a branch that begins with the type assertion
\* a.Value.(string).
OfString(a, r) ==
    IF a.Value.type = "string" THEN r
    ELSE Fail(ConversionPanic(a.Value, "string"))

OpLookup(a, table) ==
    OfString(a,
        IF a.Value.str \in DOMAIN table
        THEN Ok(table[a.Value.str])
        ELSE FailQuoted("Internal error: Failed to convert " \o a.Type \o " ",
                        a.Value.str, " from Prolog to Verilog"))

\* The concatenation of the results rs, evaluated left to right: the first
\* fatal error ends the process.
RECURSIVE JoinResults(_, _)
JoinResults(rs, sep) ==
    IF FirstFatal(rs) # NoFatal
    THEN [s |-> "", fatal |-> FirstFatal(rs), quoted |-> FirstQuoted(rs)]
    ELSE IF Len(rs) = 1 THEN Ok(rs[1].s)
    ELSE Ok(rs[1].s \o sep \o JoinResults(Tail(rs), sep).s)

RECURSIVE toVerilogExprNoSpace(_, _)
RECURSIVE toVerilogExpr(_, _)

toVerilogExprNoSpace(a, m) ==
    LET kid(i) == IF i <= Len(a.Children)
                  THEN toVerilogExpr(a.Children[i], m)
                  ELSE Fail(IndexPanic(i - 1, Len(a.Children)))
    IN  CASE a.Type = "Numeral" -> Ok(a.Text)
          [] a.Type = "Atom" -> OfString(a, Ok(a.Value.str))
          [] a.Type = "Variable" ->
                OfString(a,
                    IF a.Value.str \in DOMAIN m
                    THEN Ok(m[a.Value.str])
                    ELSE Fail("Internal error: Failed to convert variable "
                              \o a.Value.str \o " from Prolog to Verilog"))
          [] a.Type = "UnaryOp" -> OpLookup(a, prologToVerilogUnary)
          [] a.Type = "AdditiveOp" -> OpLookup(a, prologToVerilogAdd)
          [] a.Type = "MultiplicativeOp" -> OpLookup(a, prologToVerilogMult)
          [] a.Type = "RelationOp" -> OpLookup(a, prologToVerilogRel)
          [] a.Type = "PrimaryExpr" ->
                LET c == kid(1)
                IN  IF c.fatal # NoFatal THEN c
                    ELSE OfString(a, IF a.Value.str = "()"
                                     THEN Ok("(" \o c.s \o ")")
                                     ELSE c)
          [] a.Type = "UnaryExpr" ->
                IF Len(a.Children) = 1 THEN kid(1)
                ELSE JoinResults(<<kid(1), kid(2)>>, "")
          [] a.Type = "MultiplicativeExpr" ->
                IF Len(a.Children) = 1 THEN kid(1)
                ELSE JoinResults(<<kid(1), kid(2), kid(3)>>, "")
          [] a.Type = "AdditiveExpr" ->
                IF Len(a.Children) = 1 THEN kid(1)
                ELSE JoinResults(<<kid(1), kid(2), kid(3)>>, "")
          [] a.Type = "Relation" -> JoinResults(<<kid(1), kid(2), kid(3)>>, " ")
          [] a.Type \in {"Predicate", "Term"} -> kid(1)
          [] OTHER -> Fail("Internal error: Unexpected AST node type " \o a.Type)

toVerilogExpr(a, m) ==
    LET kid(i) == IF i <= Len(a.Children)
                  THEN toVerilogExpr(a.Children[i], m)
                  ELSE Fail(IndexPanic(i - 1, Len(a.Children)))
    IN  CASE a.Type = "Numeral" -> Ok(a.Text)
          [] a.Type = "Atom" -> OfString(a, Ok(a.Value.str))
          [] a.Type = "Variable" ->
                OfString(a,
                    IF a.Value.str \in DOMAIN m
                    THEN Ok(m[a.Value.str])
                    ELSE Fail("Internal error: Failed to convert variable "
                              \o a.Value.str \o " from Prolog to Verilog"))
          [] a.Type = "UnaryOp" -> OpLookup(a, prologToVerilogUnary)
          [] a.Type = "AdditiveOp" -> OpLookup(a, prologToVerilogAdd)
          [] a.Type = "MultiplicativeOp" -> OpLookup(a, prologToVerilogMult)
          [] a.Type = "RelationOp" -> OpLookup(a, prologToVerilogRel)
          [] a.Type = "PrimaryExpr" ->
                LET c == kid(1)
                IN  IF c.fatal # NoFatal THEN c
                    ELSE OfString(a, IF a.Value.str = "()"
                                     THEN Ok("(" \o c.s \o ")")
                                     ELSE c)
          [] a.Type = "UnaryExpr" ->
                IF Len(a.Children) = 1 THEN kid(1)
                ELSE JoinResults(<<kid(1), kid(2)>>, "")
          [] a.Type = "MultiplicativeExpr" ->
                IF Len(a.Children) = 1 THEN kid(1)
                ELSE JoinResults(<<kid(1), kid(2), kid(3)>>, "")
          [] a.Type = "AdditiveExpr" ->
                IF Len(a.Children) = 1 THEN kid(1)
                ELSE JoinResults(<<kid(1), kid(2), kid(3)>>, " ")
          [] a.Type = "Relation" -> JoinResults(<<kid(1), kid(2), kid(3)>>, " ")
          [] a.Type \in {"Predicate", "Term"} -> kid(1)
          [] OTHER -> Fail("Internal error: Unexpected AST node type " \o a.Type)

-----------------------------------------------------------------------------
(* verilog: process *)

ArgValidSymbolOnly(a, v) ==
    LET r0 == Rune(CharAt(a, 1))
        append(e) == [valid |-> e, fatal |-> NoFatal, quoted |-> <<>>]
    IN  IF Len(a) = 0
        THEN [valid |-> <<>>, fatal |-> IndexPanic(0, 0), quoted |-> <<>>]
        ELSE IF IsLower(r0) THEN append(<<v \o " == " \o Backtick \o a>>)
        ELSE IF IsDigit(r0) THEN append(<<>>)
        ELSE IF IsUpper(r0) THEN append(<<>>)
        ELSE [valid |-> <<>>, fatal |-> "Internal error processing ",
              quoted |-> Quoted(a, "")]

\* The validity expression of one formal argument: a sequence of zero or one
\* expressions, or a fatal error.
ArgValid(a, v) ==
    LET r0 == Rune(CharAt(a, 1))
        append(e) == [valid |-> e, fatal |-> NoFatal, quoted |-> <<>>]
    IN  IF Len(a) = 0
        THEN [valid |-> <<>>, fatal |-> IndexPanic(0, 0), quoted |-> <<>>]
        ELSE IF IsLower(r0) THEN append(<<v \o " == " \o Backtick \o a>>)
        ELSE IF IsDigit(r0) THEN append(<<v \o " == " \o a>>)
        ELSE IF IsUpper(r0) THEN append(<<>>)
        ELSE [valid |-> <<>>, fatal |-> "Internal error processing ",
              quoted |-> Quoted(a, "")]

process(c, m) ==
    LET a == args(c)
        heads == [i \in 1..Len(a.pArgs) |-> ArgValid(a.pArgs[i], a.vArgs[i])]
        body == [i \in 1..(Len(c.Children) - 1) |->
                    toVerilogExpr(c.Children[i + 1], m)]
        fatal == IF a.fatal # NoFatal THEN a.fatal
                 ELSE IF FirstFatal(heads) # NoFatal THEN FirstFatal(heads)
                 ELSE FirstFatal(body)
        quoted == IF a.fatal # NoFatal THEN <<>>
                  ELSE IF FirstFatal(heads) # NoFatal THEN FirstQuoted(heads)
                  ELSE FirstQuoted(body)
    IN  [valid |-> IF fatal # NoFatal THEN <<>>
                   ELSE ConcatAll([i \in 1..Len(heads) |-> heads[i].valid])
                        \o [i \in 1..Len(body) |-> body[i].s],
         fatal |-> fatal,
         quoted |-> quoted]

-----------------------------------------------------------------------------
(* verilog: writeClauseGroupHeader, writeClauseBody, writeClauseGroup *)

RECURSIVE JoinStrings(_, _)
JoinStrings(ss, sep) ==
    IF Len(ss) = 0 THEN ""
    ELSE IF Len(ss) = 1 THEN ss[1]
    ELSE ss[1] \o sep \o JoinStrings(Tail(ss), sep)

\* The lines a call writes, and the fatal error that ended it (if any).
Written(lines, fatal) == [out |-> lines, fatal |-> fatal, quoted |-> <<>>]

\* The verb %d on k - 1 for a uint k: the subtraction wraps at 0.
UintPred(k) == IF k = 0 THEN "18446744073709551615" ELSE Itoa(k - 1)

writeClauseGroupHeader(par, nm, cs) ==
    LET a == args(cs[1])
        vArgs == a.vArgs
    IN  IF Len(cs) = 0 THEN Written(<<>>, IndexPanic(0, 0))
        ELSE IF a.fatal # NoFatal THEN Written(<<>>, a.fatal)
        ELSE Written(
            << "// Define " \o nm \o ".",
               "module \\" \o nm \o " (" \o JoinStrings(vArgs, ", ") \o ", $valid);" >>
            \o (IF par.IntBits = 1
                THEN [i \in 1..Len(vArgs) |-> "  input " \o vArgs[i] \o ";"]
                ELSE [i \in 1..Len(vArgs) |->
                        "  input [" \o UintPred(par.IntBits) \o ":0] "
                        \o vArgs[i] \o ";"])
            \o << "  output $valid;" >>,
            NoFatal)

\* The loop of writeClauseBody that builds p2v and the equalities of repeated
\* arguments, from position i on.
RECURSIVE bindArgsLast(_, _, _, _, _)
bindArgsLast(pArgs, vArgs, i, m, valid) ==
    IF i > Len(pArgs) THEN [p2v |-> m, valid |-> valid]
    ELSE IF pArgs[i] \in DOMAIN m
    THEN bindArgsLast(pArgs, vArgs, i + 1,
                      [x \in DOMAIN m |-> IF x = pArgs[i] THEN vArgs[i] ELSE m[x]],
                      Append(valid, vArgs[i] \o " == " \o m[pArgs[i]]))
    ELSE bindArgsLast(pArgs, vArgs, i + 1,
                      [x \in DOMAIN m \cup {pArgs[i]} |->
                          IF x = pArgs[i] THEN vArgs[i] ELSE m[x]],
                      valid)

RECURSIVE bindArgs(_, _, _, _, _)
bindArgs(pArgs, vArgs, i, m, valid) ==
    IF i > Len(pArgs) THEN [p2v |-> m, valid |-> valid]
    ELSE IF pArgs[i] \in DOMAIN m
    THEN bindArgs(pArgs, vArgs, i + 1, m,
                  Append(valid, vArgs[i] \o " == " \o m[pArgs[i]]))
    ELSE bindArgs(pArgs, vArgs, i + 1,
                  [x \in DOMAIN m \cup {pArgs[i]} |->
                      IF x = pArgs[i] THEN vArgs[i] ELSE m[x]],
                  valid)

EmptyMap == [x \in {} |-> ""]

\* valid once the head is bound and the clause processed: the expressions
\* of the repeated arguments, then those of process, or 1'b1 if none.
validOrTrue(bound, pr) ==
    IF pr.fatal # NoFatal
    THEN [valid |-> <<>>, fatal |-> pr.fatal, quoted |-> pr.quoted]
    ELSE [valid |-> IF Len(bound \o pr.valid) = 0 THEN <<"1'b1">>
                    ELSE bound \o pr.valid,
          fatal |-> NoFatal,
          quoted |-> <<>>]

\* clauseValid with the substitution map left by the heads of the clauses
\* before clause i of cs, instead of a fresh one.
RECURSIVE sharedMap(_, _)
sharedMap(cs, i) ==
    IF i <= 1 THEN EmptyMap
    ELSE LET a == args(cs[i - 1])
         IN  bindArgs(a.pArgs, a.vArgs, 1, sharedMap(cs, i - 1), <<>>).p2v

clauseValidShared(cs, i) ==
    LET a == args(cs[i])
        b == bindArgs(a.pArgs, a.vArgs, 1, sharedMap(cs, i), <<>>)
    IN  IF a.fatal # NoFatal
        THEN [valid |-> <<>>, fatal |-> a.fatal, quoted |-> <<>>]
        ELSE validOrTrue(b.valid, process(cs[i], b.p2v))

\* valid as writeClauseBody computes it before writing anything.
clauseValid(c) ==
    LET a == args(c)
        b == bindArgs(a.pArgs, a.vArgs, 1, EmptyMap, <<>>)
    IN  IF a.fatal # NoFatal
        THEN [valid |-> <<>>, fatal |-> a.fatal, quoted |-> <<>>]
        ELSE validOrTrue(b.valid, process(c, b.p2v))

\* The declaration of the signal of clause cNum and one assignment per bit;
\* nothing is written when computing valid ended the process.
writeValidWide(cv, cNum) ==
    IF cv.fatal # NoFatal
    THEN [out |-> <<>>, fatal |-> cv.fatal, quoted |-> cv.quoted]
    ELSE Written(
        << "  wire [" \o Itoa(Len(cv.valid)) \o ":0] $v" \o Itoa(cNum + 1) \o ";" >>
        \o [i \in 1..Len(cv.valid) |->
              "  assign $v" \o Itoa(cNum + 1) \o "[" \o Itoa(i - 1) \o "] = "
              \o cv.valid[i] \o ";"],
        NoFatal)

writeValid(cv, cNum) ==
    IF cv.fatal # NoFatal
    THEN [out |-> <<>>, fatal |-> cv.fatal, quoted |-> cv.quoted]
    ELSE Written(
        << "  wire [" \o Itoa(Len(cv.valid) - 1) \o ":0] $v" \o Itoa(cNum + 1) \o ";" >>
        \o [i \in 1..Len(cv.valid) |->
              "  assign $v" \o Itoa(cNum + 1) \o "[" \o Itoa(i - 1) \o "] = "
              \o cv.valid[i] \o ";"],
        NoFatal)

writeClauseBody(c, par, nm, cNum) == writeValid(clauseValid(c), cNum)

\* One write after another: a fatal error in the first ends the process
\* before the second writes.
Then(first, second) ==
    IF first.fatal # NoFatal THEN first
    ELSE [out |-> first.out \o second.out, fatal |-> second.fatal,
          quoted |-> second.quoted]

RECURSIVE writeClauseBodiesShared(_, _, _, _)
writeClauseBodiesShared(cs, par, nm, i) ==
    IF i > Len(cs) THEN Written(<<>>, NoFatal)
    ELSE Then(writeValid(clauseValidShared(cs, i), i - 1),
              writeClauseBodiesShared(cs, par, nm, i + 1))

\* The loop over cs of writeClauseGroup, from clause i on.
RECURSIVE writeClauseBodies(_, _, _, _)
writeClauseBodies(cs, par, nm, i) ==
    IF i > Len(cs) THEN Written(<<>>, NoFatal)
    ELSE Then(writeClauseBody(cs[i], par, nm, i - 1),
              writeClauseBodies(cs, par, nm, i + 1))

writeClauseGroupAnd(par, nm, cs) ==
    Then(writeClauseGroupHeader(par, nm, cs),
         Then(writeClauseBodies(cs, par, nm, 1),
              Written(<< "  assign $valid = "
                         \o JoinStrings([i \in 1..Len(cs) |-> "&$v" \o Itoa(i)], " & ")
                         \o ";",
                         "endmodule" >>,
                      NoFatal)))

writeClauseGroup(par, nm, cs) ==
    Then(writeClauseGroupHeader(par, nm, cs),
         Then(writeClauseBodies(cs, par, nm, 1),
              Written(<< "  assign $valid = "
                         \o JoinStrings([i \in 1..Len(cs) |-> "&$v" \o Itoa(i)], " | ")
                         \o ";",
                         "endmodule" >>,
                      NoFatal)))

-----------------------------------------------------------------------------
(* verilog: writeSymbols and the header of WriteVerilog *)

RECURSIVE DecimalDigits(_)
DecimalDigits(k) == IF k > 0 THEN 1 + DecimalDigits(k \div 10) ELSE 0

writeSymbols(par) ==
    LET digs == DecimalDigits(Len(par.IntToSym) - 1)
    IN  << "// Define all of the symbols used in this program." >>
        \o [i \in 1..Len(par.IntToSym) |->
              Backtick \o "define " \o PadRight(par.IntToSym[i], par.IntBits) \o " "
              \o PadLeft(Itoa(i - 1), digs)]

writeHeader(par) ==
    << "// Verilog version of Prolog program " \o par.InFileName,
       "// Conversion by " \o par.ProgName
            \o ", written by Scott Pakin <pakin@lanl.gov>",
       "//",
       "// This program is intended to be passed to edif2qmasm, then to qmasm, and",
       "// finally run on a quantum annealer.",
       "//",
       "// Note: This program uses exclusively " \o Itoa(par.IntBits)
            \o "-bit unsigned integers.",
       "" >>

-----------------------------------------------------------------------------
(* The ASTs the parser hands over: constructors for the node shapes that    *)
(* args, process and toVerilogExpr take apart.                              *)

NoPos == Position(0, 0)

Numeral(txt, val) == ASTNode("Numeral", IntVal(val), txt, NoPos, <<>>)
Atom(nm) == ASTNode("Atom", StrVal(nm), nm, NoPos, <<>>)
Variable(nm) == ASTNode("Variable", StrVal(nm), nm, NoPos, <<>>)
Op(t, tok) == ASTNode(t, StrVal(tok), tok, NoPos, <<>>)

Term(x) == ASTNode("Term", NoVal, x.Text, NoPos, <<x>>)
Prim(x) == ASTNode("PrimaryExpr", StrVal(""), x.Text, NoPos, <<x>>)
Paren(x) == ASTNode("PrimaryExpr", StrVal("()"), "", NoPos, <<x>>)
Unary(x) == ASTNode("UnaryExpr", NoVal, "", NoPos, <<x>>)
UnaryOf(tok, x) == ASTNode("UnaryExpr", NoVal, "", NoPos, <<Op("UnaryOp", tok), x>>)
Mult(x) == ASTNode("MultiplicativeExpr", NoVal, "", NoPos, <<x>>)
MultOf(l, tok, r) ==
    ASTNode("MultiplicativeExpr", NoVal, "", NoPos, <<l, Op("MultiplicativeOp", tok), r>>)
Add(x) == ASTNode("AdditiveExpr", NoVal, "", NoPos, <<x>>)
AddOf(l, tok, r) ==
    ASTNode("AdditiveExpr", NoVal, "", NoPos, <<l, Op("AdditiveOp", tok), r>>)
Relation(l, tok, r) ==
    ASTNode("Relation", NoVal, "", NoPos, <<l, Op("RelationOp", tok), r>>)
Predicate(kids) == ASTNode("Predicate", NoVal, "", NoPos, kids)
Clause(head, body) == ASTNode("Clause", NoVal, "", NoPos, <<head>> \o body)

\* A leaf as it stands in an expression: wrapped once per grammar level.
Expr(x) == Add(Mult(Unary(Prim(x))))

\* The term a formal argument with source text txt parses to.
TermOf(txt) ==
    CASE txt = "a" -> Term(Atom("a"))
      [] txt = "b" -> Term(Atom("b"))
      [] txt = "42" -> Term(Numeral("42", 42))
      [] txt = "7" -> Term(Numeral("7", 7))
      [] OTHER -> Term(Variable(txt))

HeadOf(nm, texts) ==
    Predicate(<<Atom(nm)>> \o [i \in 1..Len(texts) |-> TermOf(texts[i])])

-----------------------------------------------------------------------------
(* The inputs of WriteVerilog: Parameters with IntBits, IntToSym, TopLevel. *)

ArgTexts == {"a", "X", "Yz", "42", "_"}
GroupTexts == {"X", "Yz"}

\* X < 42
BodyLess == Predicate(<<Relation(Expr(Variable("X")), "<", Expr(Numeral("42", 42)))>>)
\* Yz is X + 1 * (X - a)
BodyIs ==
    Predicate(<<Relation(
        Expr(Variable("Yz")), "is",
        AddOf(Add(Mult(Unary(Prim(Variable("X"))))), "+",
              MultOf(Mult(Unary(Prim(Numeral("1", 1)))), "*",
                     Unary(Paren(AddOf(Add(Mult(Unary(Prim(Variable("X"))))), "-",
                                       Mult(Unary(Prim(Atom("a"))))))))))>>)
\* -X \= 7
BodyNeq ==
    Predicate(<<Relation(Add(Mult(UnaryOf("-", Prim(Variable("X"))))), "\\=",
                         Expr(Numeral("7", 7)))>>)

Bodies == {<<>>, <<BodyLess>>, <<BodyIs, BodyNeq>>}
GroupBodies == {<<>>, <<BodyLess>>}

TextsOver(T, k) == [1..k -> T]

SingleClauses ==
    {Clause(HeadOf("foo", h), b) :
        h \in UNION {TextsOver(ArgTexts, k) : k \in 0..MaxArity}, b \in Bodies}

GroupClauses(nm, k) ==
    {Clause(HeadOf(nm, h), b) : h \in TextsOver(GroupTexts, k), b \in GroupBodies}

\* Sequences of len clauses of one name and one arity.
GroupSeqs(nm, len) ==
    UNION {[1..len -> GroupClauses(nm, k)] : k \in 0..GroupArity}

NoGroups == [x \in {} |-> <<>>]

\* No groups; one clause of any shape; one group of several clauses; two
\* groups, foo and bar, of one clause each.
TopLevels ==
    {NoGroups}
    \cup {[x \in {"foo"} |-> <<c>>] : c \in SingleClauses}
    \cup UNION {{[x \in {"foo"} |-> cs] : cs \in GroupSeqs("foo", len)} :
                    len \in 2..MaxClauses}
    \cup {[x \in {"foo", "bar"} |-> IF x = "foo" THEN cs1 ELSE cs2] :
              cs1 \in GroupSeqs("foo", 1), cs2 \in GroupSeqs("bar", 1)}

SymbolTables ==
    {[IntBits |-> 0, IntToSym |-> <<>>],
     [IntBits |-> 1, IntToSym |-> <<"a">>],
     [IntBits |-> 6, IntToSym |->
        <<"a", "apple", "b", "c", "d", "e", "f", "g", "h", "i", "j">>]}

ParametersSet ==
    {[ProgName |-> "qa-prolog", InFileName |-> "prog.pl",
      IntBits |-> t.IntBits, IntToSym |-> t.IntToSym, TopLevel |-> tl] :
        t \in SymbolTables, tl \in TopLevels}

NoParameters ==
    [ProgName |-> "qa-prolog", InFileName |-> "<stdin>",
     IntBits |-> 0, IntToSym |-> <<>>, TopLevel |-> NoGroups]

NoNode == ASTNode("", NoVal, "", NoPos, <<>>)
NoRun == [ran |-> FALSE, w |-> <<>>]
NoResult == [s |-> "", fatal |-> NoFatal, done |-> FALSE]

-----------------------------------------------------------------------------
(* WriteVerilog as a process: the header and symbols, then one iteration of *)
(* the range over p.TopLevel per step.  Go leaves the iteration order of a  *)
(* map unspecified, so every order of the keys is possible.                 *)

Init ==
    /\ pc = "start"
    /\ p \in ParametersSet
    /\ w = <<>>
    /\ todo = {}
    /\ prev = NoRun
    /\ exit = -1
    /\ stderr = <<>>
    /\ stdout = <<>>
    /\ ast = NoNode
    /\ n = 0
    /\ node = NoNode
    /\ p2v = EmptyMap
    /\ res = NoResult

WriteVerilogBegin ==
    /\ pc = "start"
    /\ w' = writeHeader(p) \o writeSymbols(p)
    /\ todo' = DOMAIN p.TopLevel
    /\ pc' = "range"
    /\ UNCHANGED <<ast, stderr, stdout, exit, p, prev, n, node, p2v, res>>

WriteVerilogGroup ==
    /\ pc = "range"
    /\ \E nm \in todo : \E g \in {writeClauseGroup(p, nm, p.TopLevel[nm])} :
            /\ w' = w \o <<"">> \o g.out
            /\ todo' = todo \ {nm}
            /\ IF g.fatal # NoFatal
               THEN /\ pc' = IF IsPanic(g.fatal) THEN "panic" ELSE "fatal"
                    /\ stderr' = Append(stderr, FatalLine(p.ProgName, g.fatal, g.quoted))
                    /\ exit' = ExitStatus(g.fatal)
               ELSE /\ pc' = "range"
                    /\ UNCHANGED <<stderr, exit>>
    /\ UNCHANGED <<ast, stdout, p, prev, n, node, p2v, res>>

WriteVerilogEnd ==
    /\ pc = "range"
    /\ todo = {}
    /\ pc' = "done"
    /\ UNCHANGED <<ast, stderr, stdout, exit, p, w, todo, prev, n, node, p2v, res>>

\* A second run of WriteVerilog on the same Parameters, with a fresh writer.
Rerun ==
    /\ pc = "done"
    /\ ~prev.ran
    /\ prev' = [ran |-> TRUE, w |-> w]
    /\ w' = <<>>
    /\ pc' = "start"
    /\ UNCHANGED <<ast, stderr, stdout, exit, p, todo, n, node, p2v, res>>

Next == WriteVerilogBegin \/ WriteVerilogGroup \/ WriteVerilogEnd \/ Rerun

Spec == Init /\ [][Next]_vars

TypeOK == pc \in {"start", "range", "fatal", "panic", "done"}

-----------------------------------------------------------------------------
(* numToVerVar on its own: one call per parameter number.                   *)

InitEncode ==
    /\ pc = "numToVerVar"
    /\ n \in 0..MaxParam
    /\ res = NoResult
    /\ p = NoParameters
    /\ w = <<>>
    /\ todo = {}
    /\ prev = NoRun
    /\ exit = -1
    /\ stderr = <<>>
    /\ stdout = <<>>
    /\ ast = NoNode
    /\ node = NoNode
    /\ p2v = EmptyMap

\* The call returns, or ends the process in notify.Fatal or in a panic.
Returned(r) ==
    /\ res' = [s |-> r.s, fatal |-> r.fatal, done |-> TRUE]
    /\ IF r.fatal # NoFatal
       THEN /\ pc' = IF IsPanic(r.fatal) THEN "panic" ELSE "fatal"
            /\ stderr' = Append(stderr, Diagnostic(p.ProgName, r.fatal, <<>>))
            /\ exit' = ExitStatus(r.fatal)
       ELSE /\ pc' = "returned"
            /\ UNCHANGED <<stderr, exit>>

Encode ==
    /\ pc = "numToVerVar"
    /\ Returned(numToVerVar(n))
    /\ UNCHANGED <<ast, stdout, p, w, todo, prev, n, node, p2v>>

NextEncode == Encode

SpecEncode == InitEncode /\ [][NextEncode]_vars

-----------------------------------------------------------------------------
(* toVerilogExpr on its own: one call per tree and substitution map.        *)

ExprLeaves ==
    {Numeral("007", 7), Atom("a"), Variable("X"), Variable("Q"),
     ASTNode("List", NoVal, "[]", NoPos, <<>>)}

Wrapped(S) ==
    UNION {{Prim(x), Paren(x), Unary(x), UnaryOf("-", x),
            Mult(x), Add(x), Predicate(<<x>>), Term(x)} : x \in S}

Binary(l, r) ==
    {MultOf(l, "*", r), AddOf(l, "+", r), AddOf(l, "-", r),
     Relation(l, "\\=", r), Relation(l, "is", r), Relation(l, "=:=", r)}

RECURSIVE ExprNodes(_)
ExprNodes(d) ==
    IF d = 0 THEN ExprLeaves
    ELSE LET S == ExprNodes(d - 1)
         IN  S \cup Wrapped(S)
               \cup UNION {Binary(x, Variable("X")) \cup Binary(Numeral("007", 7), x) :
                              x \in S}

Substitutions ==
    {[x \in {"X"} |-> "$A"], [x \in {"X", "Yz"} |-> IF x = "X" THEN "$B" ELSE "$A"]}

InitExpr ==
    /\ pc = "toVerilogExpr"
    /\ node \in ExprNodes(ExprDepth)
    /\ p2v \in Substitutions
    /\ res = NoResult
    /\ p = NoParameters
    /\ w = <<>>
    /\ todo = {}
    /\ prev = NoRun
    /\ exit = -1
    /\ stderr = <<>>
    /\ stdout = <<>>
    /\ ast = NoNode
    /\ n = 0

\* The call returns, or ends the process in notify.Fatalf or in a panic.
LowerExpr ==
    /\ pc = "toVerilogExpr"
    /\ \E r \in {toVerilogExpr(node, p2v)} :
          /\ res' = [s |-> r.s, fatal |-> r.fatal, done |-> TRUE]
          /\ IF r.fatal # NoFatal
             THEN /\ pc' = IF IsPanic(r.fatal) THEN "panic" ELSE "fatal"
                  /\ stderr' = Append(stderr, FatalLine(p.ProgName, r.fatal, r.quoted))
                  /\ exit' = ExitStatus(r.fatal)
             ELSE /\ pc' = "returned"
                  /\ UNCHANGED <<stderr, exit>>
    /\ UNCHANGED <<ast, stdout, p, w, todo, prev, n, node, p2v>>

NextExpr == LowerExpr

SpecExpr == InitExpr /\ [][NextExpr]_vars

-----------------------------------------------------------------------------
(* main: parse, RejectUnimplemented, then the summary on os.Stdout.         *)

\* Children of one node: the parser gives every node its own position.
Fan == MaxKids + 3

RECURSIVE Locate(_, _, _)
Locate(a, line, col) ==
    [a EXCEPT !.Pos = Position(line, col),
              !.Children = [i \in 1..Len(a.Children) |->
                              Locate(a.Children[i], line, (col * Fan) + i)]]

Program(clauses) ==
    ASTNode("Program", NoVal, "", Position(1, 1),
            [i \in 1..Len(clauses) |-> Locate(clauses[i], i, 1)])

List(kids) == ASTNode("List", NoVal, "", NoPos, kids)
Structure(nm, kids) == ASTNode("Structure", NoVal, "", NoPos, <<Atom(nm)>> \o kids)

MainTerms ==
    {Term(Atom("a")), Term(Atom("b")), Term(Variable("X")), Term(Numeral("7", 7)),
     Term(List(<<Term(Atom("a"))>>)),
     Term(Structure("f", <<Term(Atom("b"))>>)),
     Term(Structure("f", <<Term(List(<<>>))>>))}

\* X = b        X = [c]
MainBodies ==
    {<<>>,
     <<Predicate(<<Relation(Expr(Variable("X")), "=", Expr(Atom("b")))>>)>>,
     <<Predicate(<<Relation(Expr(Variable("X")), "=", Expr(List(<<Term(Atom("c"))>>)))>>)>>}

MainClauses(k) ==
    {Clause(Predicate(<<Atom(nm)>> \o ts), b) :
        nm \in {"foo", "a"}, ts \in UNION {[1..j -> MainTerms] : j \in 0..k},
        b \in MainBodies}

MainASTs ==
    {Program(<<c>>) : c \in MainClauses(MaxKids)}
    \cup {Program(<<c, d>>) : c \in MainClauses(1), d \in MainClauses(1)}

\* fmt.Println(ast): one write of the node in the default format of its
\* type.  The declaration of the type decides the text and is not part of
\* these sources, so the write is kept as its verb and operand.
FormatAST(a) == [verb |-> "%v", operand |-> a]

InitMain ==
    /\ pc = "main"
    /\ ast \in MainASTs
    /\ p = NoParameters
    /\ stderr = <<>>
    /\ stdout = <<>>
    /\ exit = -1
    /\ w = <<>>
    /\ todo = {}
    /\ prev = NoRun
    /\ n = 0
    /\ node = NoNode
    /\ p2v = EmptyMap
    /\ res = NoResult

MainReject ==
    /\ pc = "main"
    /\ LET errs == RejectUnimplemented(ast, p.InFileName)
       IN  IF Len(errs) > 0
           THEN /\ stderr' = stderr \o errs
                /\ exit' = 1
                /\ pc' = "exited"
           ELSE /\ pc' = "validated"
                /\ UNCHANGED <<stderr, exit>>
    /\ UNCHANGED <<ast, stdout, p, w, todo, prev, n, node, p2v, res>>

MainPrint ==
    /\ pc = "validated"
    /\ LET names == AtomNames(ast)
           num == MaxNumeral(ast)
           atoms == "ATOMS: [" \o JoinStrings(names.list, " ") \o "]"
           fatal == IF names.fatal # NoFatal THEN names.fatal ELSE num.fatal
       IN  /\ stdout' = stdout \o
                 (IF names.fatal # NoFatal THEN <<FormatAST(ast)>>
                  ELSE IF num.fatal # NoFatal THEN <<FormatAST(ast), atoms>>
                  ELSE <<FormatAST(ast), atoms, "MAX NUM: " \o Itoa(num.max)>>)
           /\ IF fatal # NoFatal
              THEN /\ stderr' = Append(stderr,
                                       Diagnostic(p.ProgName, fatal, names.dump))
                   /\ exit' = ExitStatus(fatal)
                   /\ pc' = IF IsPanic(fatal) THEN "panic" ELSE "fatal"
              ELSE /\ exit' = 0
                   /\ pc' = "done"
                   /\ UNCHANGED stderr
    /\ UNCHANGED <<ast, p, w, todo, prev, n, node, p2v, res>>

NextMain == MainReject \/ MainPrint

SpecMain == InitMain /\ [][NextMain]_vars

-----------------------------------------------------------------------------
(* Properties of numToVerVar. *)

Letter(i) == CharAt("ABCDEFGHIJKLMNOPQRSTUVWXYZ", i + 1)

\* C2: numToVerVar is injective on 0..701; below 26 it returns the sigil and
\* the letter at index n ("$A" for 0, "$Z" for 25); from 26 to 701 it returns
\* the sigil, the letter at index (n div 26) - 1 and the letter at index
\* n mod 26 ("$AA" for 26); from 702 on it fails with the fatal error
\* "Too many parameters" and returns no identifier.
C2_Encode ==
    pc # "numToVerVar" =>
        /\ res.done
        /\ (n < 26) =>
              /\ pc = "returned"
              /\ res.s = "$" \o Letter(n)
        /\ (n >= 26 /\ n < 702) =>
              /\ pc = "returned"
              /\ res.s = "$" \o Letter((n \div 26) - 1) \o Letter(n % 26)
        /\ (n >= 702) =>
              /\ pc = "fatal"
              /\ exit = 1
              /\ res.s = ""
              /\ stderr = <<"qa-prolog: Too many parameters">>
        /\ (n = 0) => res.s = "$A"
        /\ (n = 25) => res.s = "$Z"
        /\ (n = 26) => res.s = "$AA"
        /\ (n < 702) => \A m \in 0..(n - 1) : numToVerVar(m).s # res.s

C2_Witness == pc = "returned" /\ n = 701 /\ res.s = "$ZZ"

-----------------------------------------------------------------------------
(* Properties of RejectUnimplemented and AtomNames, stated over the paths   *)
(* of the tree: a path is the sequence of child indices from the root.      *)

RECURSIVE PathsOf(_)
PathsOf(a) ==
    {<<>>} \cup UNION {{<<i>> \o q : q \in PathsOf(a.Children[i])} :
                           i \in 1..Len(a.Children)}

RECURSIVE NodeAt(_, _)
NodeAt(a, path) ==
    IF Len(path) = 0 THEN a ELSE NodeAt(a.Children[path[1]], Tail(path))

IsPrefix(q, r) == Len(q) <= Len(r) /\ SubSeq(r, 1, Len(q)) = q

\* q is visited before r by a depth-first, pre-order, left-to-right walk.
Before(q, r) ==
    /\ q # r
    /\ \/ IsPrefix(q, r)
       \/ \E i \in 1..Len(q) :
            /\ i <= Len(r)
            /\ SubSeq(q, 1, i - 1) = SubSeq(r, 1, i - 1)
            /\ q[i] < r[i]

PathsOfType(a, t) == {q \in PathsOf(a) : NodeAt(a, q).Type = t}

FirstOfType(a, t) ==
    NodeAt(a, CHOOSE q \in PathsOfType(a, t) :
                  \A r \in PathsOfType(a, t) \ {q} : Before(q, r))

Report(pos, msg) ==
    "<stdin>:" \o Itoa(pos.line) \o ":" \o Itoa(pos.col) \o ": " \o msg

\* C3: a run reports at most one error: with a list node in the AST, the
\* position of the first list node in pre-order and the message that lists
\* are unsupported (also when a structure node is present, even earlier in
\* the walk); with no list but a structure node, the first structure node;
\* with neither, nothing.  A run that reports an error writes no output.
C3_Reject ==
    pc # "main" =>
        LET lists == PathsOfType(ast, "List")
            structs == PathsOfType(ast, "Structure")
        IN  /\ Len(stderr) <= 1
            /\ (Len(stderr) = 1) => (pc = "exited" /\ exit = 1 /\ Len(stdout) = 0)
            /\ (lists # {}) =>
                  stderr = <<Report(FirstOfType(ast, "List").Pos,
                                    "Lists are not currently supported")>>
            /\ (lists = {} /\ structs # {}) =>
                  stderr = <<Report(FirstOfType(ast, "Structure").Pos,
                                    "Structures are not currently supported")>>
            /\ (lists = {} /\ structs = {}) =>
                  (Len(stderr) = 0 /\ pc \in {"validated", "done"})

\* A structure that holds a list, and a second list later in the clause.
C3_Witness ==
    /\ pc = "exited"
    /\ \E q \in PathsOfType(ast, "Structure") :
          \E r \in PathsOfType(ast, "List") : Before(q, r)
    /\ Cardinality(PathsOfType(ast, "List")) >= 2
    /\ stderr = <<Report(FirstOfType(ast, "List").Pos,
                         "Lists are not currently supported")>>

\* The paths of the clause-head names: the first child of the head, which is
\* the first child of a clause.
HeadNamePaths(a) ==
    {q \o <<1, 1>> : q \in PathsOfType(a, "Clause")} \cap PathsOf(a)

AtomsExceptHeadNames(a) ==
    {NodeAt(a, q).Value.str : q \in PathsOfType(a, "Atom") \ HeadNamePaths(a)}

StrictlyAscending(ss) ==
    \A i \in 1..(Len(ss) - 1) : StrLess(ss[i], ss[i + 1])

\* C1: AtomNames returns a strictly ascending, duplicate-free sequence that
\* holds the payload of every atom of the tree except the clause-head names:
\* atoms among the formal arguments of a clause head are included.
C1_AtomNames ==
    pc = "done" =>
        \E ss \in UNION {[1..k -> AtomsExceptHeadNames(ast)] :
                            k \in {Cardinality(AtomsExceptHeadNames(ast))}} :
            /\ StrictlyAscending(ss)
            /\ {ss[i] : i \in 1..Len(ss)} = AtomsExceptHeadNames(ast)
            /\ stdout[2] = "ATOMS: [" \o JoinStrings(ss, " ") \o "]"

-----------------------------------------------------------------------------
(* Properties of toVerilogExpr. *)

LoweredTags ==
    {"Numeral", "Atom", "Variable", "UnaryOp", "AdditiveOp", "MultiplicativeOp",
     "RelationOp", "PrimaryExpr", "UnaryExpr", "MultiplicativeExpr",
     "AdditiveExpr", "Relation", "Predicate", "Term"}

\* C9: the lowering of a node is built from the lowerings of its children in
\* their order: a one-child unary, multiplicative or additive expression and
\* a predicate or term wrapper lower to their child's lowering; a two-child
\* unary expression to operator and operand with no separator; a three-child
\* multiplicative expression to left, operator, right with no separator; a
\* three-child additive expression and every relation to left, operator,
\* right joined by single spaces; a primary expression is parenthesised
\* exactly when its discriminator is "()"; a numeral lowers to its literal
\* text; a node with a tag outside the lowered ones is a fatal internal error.
C9_Lowering ==
    pc # "toVerilogExpr" =>
        LET kids == node.Children
            r(i) == toVerilogExpr(kids[i], p2v)
            ok(k) == \A i \in 1..k : r(i).fatal = NoFatal
            same(x) == res.s = x.s /\ res.fatal = x.fatal
            is(str) == res.s = str /\ res.fatal = NoFatal /\ pc = "returned"
        IN  /\ res.done
            /\ (res.fatal # NoFatal) <=> (pc = "fatal")
            /\ (node.Type = "Numeral") => is(node.Text)
            /\ (node.Type \in {"UnaryExpr", "MultiplicativeExpr", "AdditiveExpr"}
                    /\ Len(kids) = 1) => same(r(1))
            /\ (node.Type \in {"Predicate", "Term"}) => same(r(1))
            /\ (node.Type = "UnaryExpr" /\ Len(kids) = 2) =>
                  IF ok(2) THEN is(r(1).s \o r(2).s) ELSE pc = "fatal"
            /\ (node.Type = "MultiplicativeExpr" /\ Len(kids) = 3) =>
                  IF ok(3) THEN is(r(1).s \o r(2).s \o r(3).s) ELSE pc = "fatal"
            /\ (node.Type \in {"AdditiveExpr", "Relation"} /\ Len(kids) = 3) =>
                  IF ok(3) THEN is(r(1).s \o " " \o r(2).s \o " " \o r(3).s)
                  ELSE pc = "fatal"
            /\ (node.Type = "PrimaryExpr") =>
                  IF ~ok(1) THEN pc = "fatal"
                  ELSE IF node.Value.str = "()" THEN is("(" \o r(1).s \o ")")
                  ELSE is(r(1).s)
            /\ (node.Type \notin LoweredTags) =>
                  /\ pc = "fatal"
                  /\ stderr = <<"qa-prolog: Internal error: Unexpected AST node type "
                                \o node.Type>>
            /\ (node = AddOf(Numeral("007", 7), "-", UnaryOf("-", Variable("X")))) =>
                  is("007 - -" \o p2v["X"])
            /\ (node = MultOf(Paren(Variable("X")), "*", Variable("X"))) =>
                  is("(" \o p2v["X"] \o ")*" \o p2v["X"])
            /\ (node = Relation(Numeral("007", 7), "\\=", Term(Atom("a")))) =>
                  is("007 != a")

C9_Witness ==
    /\ pc = "returned"
    /\ node = AddOf(Numeral("007", 7), "-", UnaryOf("-", Variable("X")))
    /\ res.s = "007 - -$B"

-----------------------------------------------------------------------------
(* Reading the emitted text back: the lines of one module, the signal and   *)
(* the constraint bits of one clause.                                       *)

HasSuffix(str, suf) ==
    Len(str) >= Len(suf) /\ SubSeq(str, Len(str) - Len(suf) + 1, Len(str)) = suf

MaxBits == 8            \* largest bit index looked for in an assignment

Min(S) == CHOOSE x \in S : \A y \in S : x <= y

\* The group nm has been handed to writeClauseGroup in this run.
Compiled(nm) ==
    /\ pc \in {"range", "fatal", "done"}
    /\ nm \in DOMAIN p.TopLevel
    /\ nm \notin todo

\* The lines of w from the comment that opens the module of nm up to the
\* blank line that precedes the next module (or the end of w).
Section(nm) ==
    LET starts == {i \in 1..Len(w) : w[i] = "// Define " \o nm \o "."}
        first == Min(starts)
        blanks == {i \in first..Len(w) : w[i] = ""}
    IN  IF starts = {} THEN <<>>
        ELSE SubSeq(w, first, IF blanks = {} THEN Len(w) ELSE Min(blanks) - 1)

Signal(c) == "$v" \o Itoa(c)

WireIdx(L, c) ==
    {i \in 1..Len(L) : HasPrefix(L[i], "  wire [")
                        /\ HasSuffix(L[i], "] " \o Signal(c) \o ";")}

AssignPrefix(c, k) == "  assign " \o Signal(c) \o "[" \o Itoa(k) \o "] = "

AssignIdx(L, c) ==
    {i \in 1..Len(L) : HasPrefix(L[i], "  assign " \o Signal(c) \o "[")}

\* The right-hand sides assigned to the bits of the signal of clause c.
Constraints(L, c) ==
    UNION {{SubSeq(L[i], Len(AssignPrefix(c, k)) + 1, Len(L[i]) - 1) :
                k \in {k \in 0..MaxBits : HasPrefix(L[i], AssignPrefix(c, k))}} :
            i \in AssignIdx(L, c)}

Emitted(nm, c) == Compiled(nm) /\ WireIdx(Section(nm), c) # {}

\* The source text of the formal arguments of a clause, and the identifier
\* of position j.
TextsOf(cl) ==
    [j \in 1..(Len(cl.Children[1].Children) - 1) |->
        cl.Children[1].Children[j + 1].Text]

BodyOf(cl) == Tail(cl.Children)

Id(j) == "$" \o Letter(j - 1)

FirstAt(t, txt) == Min({i \in 1..Len(t) : t[i] = txt})

Repeats(t) == {j \in 1..Len(t) : FirstAt(t, t[j]) < j}

\* The text of the three body predicates of the inputs, for a head t that
\* binds their variables.
ExpectedBody(b, t) ==
    LET x == Id(FirstAt(t, "X"))
    IN  CASE b = BodyLess -> x \o " < 42"
          [] b = BodyNeq -> "-" \o x \o " != 7"
          [] b = BodyIs -> Id(FirstAt(t, "Yz")) \o " == " \o x \o " + 1*("
                           \o x \o " - a)"

BodyVariables(b) ==
    LET vs == FindByType(b, "Variable") IN [i \in 1..Len(vs) |-> vs[i].Value.str]

Unbound(cl) ==
    {i \in 1..Len(BodyOf(cl)) :
        \E k \in 1..Len(BodyVariables(BodyOf(cl)[i])) :
            \A j \in 1..Len(TextsOf(cl)) :
                TextsOf(cl)[j] # BodyVariables(BodyOf(cl)[i])[k]}

Classified(t) ==
    \A j \in 1..Len(t) :
        IsLower(Rune(CharAt(t[j], 1))) \/ IsDigit(Rune(CharAt(t[j], 1))) \/ IsUpper(Rune(CharAt(t[j], 1)))

AllClauses == {<<nm, c>> \in {"foo", "bar"} \X (1..(MaxClauses + 1)) :
                  nm \in DOMAIN p.TopLevel /\ c <= Len(p.TopLevel[nm])}

-----------------------------------------------------------------------------
(* Properties of writeClauseBody and process. *)

\* The formal argument at position j of the head is a variable.
VariableAt(cl, j) == cl.Children[1].Children[j + 1].Children[1].Type = "Variable"

\* C4: for every emitted clause and every position j of its head that holds
\* a variable, an equality between the identifier of j and another
\* identifier is a constraint exactly when the name at j was bound at an
\* earlier position, and it equates the identifier of j with the identifier
\* of the FIRST position of that name (the binding is never overwritten);
\* every body predicate contributes its constraint besides.
C4_RepeatedVariables ==
    \A x \in AllClauses :
        Emitted(x[1], x[2]) =>
            LET cl == p.TopLevel[x[1]][x[2]]
                t == TextsOf(cl)
                CS == Constraints(Section(x[1]), x[2])
                heads == {j \in 1..Len(t) : VariableAt(cl, j)}
            IN  /\ \A j \in heads : \A i \in 1..Len(t) :
                      (Id(j) \o " == " \o Id(i)) \in CS
                          <=> (j \in Repeats(t) /\ i = FirstAt(t, t[j]))
                /\ \A k \in 1..Len(BodyOf(cl)) :
                      ExpectedBody(BodyOf(cl)[k], t) \in CS
                /\ Cardinality(AssignIdx(Section(x[1]), x[2]))
                      >= Cardinality(Repeats(t) \cap heads) + Len(BodyOf(cl))

\* foo(X, X, X) :- X < 42.
C4_Witness ==
    /\ pc = "done"
    /\ DOMAIN p.TopLevel = {"foo"}
    /\ TextsOf(p.TopLevel["foo"][1]) = <<"X", "X", "X">>
    /\ Constraints(Section("foo"), 1) = {"$B == $A", "$C == $A", "$A < 42"}

ArgConstraints(t) ==
    {Id(j) \o " == " \o Backtick \o t[j] : j \in {j \in 1..Len(t) : IsLower(Rune(CharAt(t[j], 1)))}}
    \cup {Id(j) \o " == " \o t[j] : j \in {j \in 1..Len(t) : IsDigit(Rune(CharAt(t[j], 1)))}}

RepeatConstraints(t) ==
    {Id(j) \o " == " \o Id(FirstAt(t, t[j])) : j \in Repeats(t)}

\* The equalities of the repeated variables alone.
RepeatedVariableConstraints(cl, t) ==
    {Id(j) \o " == " \o Id(FirstAt(t, t[j])) :
        j \in {j \in Repeats(t) : VariableAt(cl, j)}}

\* C5 as stated: the constraints of an emitted clause with an empty body are
\* exactly one "identifier == `text" per argument starting with a lowercase
\* letter, one "identifier == text" per argument starting with a digit, none
\* for an argument starting with an uppercase letter, and the equalities of
\* the repeated variables, and nothing else; foo(a, X, X) yields exactly two
\* bits.  It fails on foo(X), whose one constraint is 1'b1, and on
\* foo(a, a), whose third constraint is $B == $A.
C5_EmptyBodyAsStated ==
    \A x \in AllClauses :
        LET cl == p.TopLevel[x[1]][x[2]]
            t == TextsOf(cl)
            L == Section(x[1])
            CS == Constraints(L, x[2])
            expected == ArgConstraints(t) \cup RepeatedVariableConstraints(cl, t)
        IN  (Emitted(x[1], x[2]) /\ Len(BodyOf(cl)) = 0) =>
                /\ CS = expected
                /\ Cardinality(AssignIdx(L, x[2])) = Cardinality(expected)
                /\ (t = <<"a", "X", "X">>) =>
                      /\ CS = {"$A == " \o Backtick \o "a", "$C == $B"}
                      /\ Cardinality(AssignIdx(L, x[2])) = 2

\* C5, amended: the constraints of an emitted clause with an empty body are
\* exactly one "identifier == `text" per argument starting with a lowercase
\* letter, one "identifier == text" per argument starting with a digit, none
\* for an argument starting with an uppercase letter, and one equality per
\* argument whose text (variable, atom or numeral) repeats that of an earlier
\* argument; when there is none of these the one constraint is 1'b1.
\* foo(a, X, X) yields exactly two bits, $A == `a and the equality of $B and
\* $C.
C5_EmptyBody ==
    \A x \in AllClauses :
        LET cl == p.TopLevel[x[1]][x[2]]
            t == TextsOf(cl)
            L == Section(x[1])
            CS == Constraints(L, x[2])
            expected == ArgConstraints(t) \cup RepeatConstraints(t)
        IN  (Emitted(x[1], x[2]) /\ Len(BodyOf(cl)) = 0) =>
                /\ (expected # {}) =>
                      /\ CS = expected
                      /\ Cardinality(AssignIdx(L, x[2])) = Cardinality(expected)
                /\ (expected = {}) => CS = {"1'b1"}
                /\ \A j \in 1..Len(t) :
                      IsUpper(Rune(CharAt(t[j], 1))) =>
                          \A rhs \in CS :
                              HasPrefix(rhs, Id(j) \o " == ") => j \in Repeats(t)
                /\ (t = <<"a", "X", "X">>) =>
                      /\ CS = {"$A == " \o Backtick \o "a", "$C == $B"}
                      /\ Cardinality(AssignIdx(L, x[2])) = 2

C5_Witness ==
    /\ pc = "done"
    /\ p.IntBits = 6
    /\ DOMAIN p.TopLevel = {"foo"}
    /\ TextsOf(p.TopLevel["foo"][1]) = <<"a", "X", "X">>
    /\ Len(BodyOf(p.TopLevel["foo"][1])) = 0
    /\ Cardinality(Constraints(Section("foo"), 1)) = 2

\* C6: the signal of every emitted clause has as many bits as the clause has
\* constraints, at least one, with one assignment per bit index in order
\* right after its declaration; a clause with an empty body and distinct
\* variables as its arguments has the single constraint 1'b1 on wire [0:0];
\* 1'b1 is a constraint only when it is the only one.  A run that ends
\* normally has emitted every clause.
C6_SignalWidth ==
    \A x \in AllClauses :
        LET cl == p.TopLevel[x[1]][x[2]]
            t == TextsOf(cl)
            L == Section(x[1])
            c == x[2]
            K == Cardinality(AssignIdx(L, c))
            CS == Constraints(L, c)
        IN  /\ (pc = "done") => Emitted(x[1], c)
            /\ (Compiled(x[1]) /\ ~Emitted(x[1], c)) => AssignIdx(L, c) = {}
            /\ Emitted(x[1], c) =>
                  /\ Cardinality(WireIdx(L, c)) = 1
                  /\ K >= 1
                  /\ \A i \in WireIdx(L, c) :
                        /\ L[i] = "  wire [" \o Itoa(K - 1) \o ":0] " \o Signal(c) \o ";"
                        /\ i + K <= Len(L)
                        /\ \A k \in 0..(K - 1) : HasPrefix(L[i + 1 + k], AssignPrefix(c, k))
                  /\ ("1'b1" \in CS) => K = 1
                  /\ (/\ Len(BodyOf(cl)) = 0
                      /\ Repeats(t) = {}
                      /\ \A j \in 1..Len(t) : IsUpper(Rune(CharAt(t[j], 1)))) =>
                        /\ CS = {"1'b1"}
                        /\ \A i \in WireIdx(L, c) :
                              L[i] = "  wire [0:0] " \o Signal(c) \o ";"

\* foo(X, Yz).
C6_Witness ==
    /\ pc = "done"
    /\ DOMAIN p.TopLevel = {"foo"}
    /\ TextsOf(p.TopLevel["foo"][1]) = <<"X", "Yz">>
    /\ Len(BodyOf(p.TopLevel["foo"][1])) = 0
    /\ Constraints(Section("foo"), 1) = {"1'b1"}

-----------------------------------------------------------------------------
(* Properties of writeClauseGroup and WriteVerilog. *)

\* The lines that the clauses before clause c take in L: one declaration
\* and the assignments of each.
RECURSIVE LinesBefore(_, _)
LinesBefore(L, c) ==
    IF c <= 1 THEN 0
    ELSE LinesBefore(L, c - 1) + 1 + Cardinality(AssignIdx(L, c - 1))

RECURSIVE OrOf(_)
OrOf(k) == IF k = 1 THEN "&$v1" ELSE OrOf(k - 1) \o " | &$v" \o Itoa(k)

Complete(nm) ==
    /\ Compiled(nm)
    /\ Len(Section(nm)) > 0
    /\ Section(nm)[Len(Section(nm))] = "endmodule"

\* C7: the module of a group of k >= 1 clauses is one header, then per
\* clause in group order the declaration of $v1..$vk with its assignments,
\* then the single output assignment, the OR of &$v1 .. &$vk with each
\* once (just &$v1 for k = 1), then the closing marker, and nothing else.
C7_GroupShape ==
    \A nm \in DOMAIN p.TopLevel :
        LET cs == p.TopLevel[nm]
            k == Len(cs)
            L == Section(nm)
            arity == Len(TextsOf(cs[1]))
            wire(c) == Min(WireIdx(L, c))
            bits(c) == Cardinality(AssignIdx(L, c))
            start(c) == 3 + arity + 1 + LinesBefore(L, c)
        IN  /\ (pc = "done") => Complete(nm)
            /\ Complete(nm) =>
                  /\ L[1] = "// Define " \o nm \o "."
                  /\ HasPrefix(L[2], "module \\" \o nm \o " (")
                  /\ HasSuffix(L[2], "$valid);")
                  /\ Cardinality({i \in 1..Len(L) : HasPrefix(L[i], "module ")}) = 1
                  /\ L[3 + arity] = "  output $valid;"
                  /\ \A c \in 1..k :
                        /\ WireIdx(L, c) = {start(c)}
                        /\ AssignIdx(L, c) = (start(c) + 1)..(start(c) + bits(c))
                  /\ Len(L) = start(k) + bits(k) + 2
                  /\ L[Len(L) - 1] = "  assign $valid = " \o OrOf(k) \o ";"
                  /\ L[Len(L)] = "endmodule"
                  /\ Cardinality({i \in 1..Len(L) :
                                    HasPrefix(L[i], "  assign $valid")}) = 1

C7_Witness ==
    /\ pc = "done"
    /\ DOMAIN p.TopLevel = {"foo"}
    /\ Len(p.TopLevel["foo"]) = 2
    /\ Section("foo")[Len(Section("foo")) - 1] = "  assign $valid = &$v1 | &$v2;"
    /\ Len(BodyOf(p.TopLevel["foo"][2])) = 1

\* C10: a clause of a group is emitted only when every variable of its body
\* is a formal argument of its own head, and then its body constraints use
\* the identifiers of its own head; the first clause of the group with a
\* body variable that its own head does not bind ends the run with the
\* internal error for that variable, whatever the other clauses bind.
C10_FreshMap ==
    \A nm \in DOMAIN p.TopLevel :
        LET cs == p.TopLevel[nm]
            bad == {c \in 1..Len(cs) : Unbound(cs[c]) # {}}
            L == Section(nm)
        IN  (Compiled(nm) /\ \A c \in 1..Len(cs) : Classified(TextsOf(cs[c]))) =>
                /\ \A c \in 1..Len(cs) :
                      Emitted(nm, c) <=> (\A d \in 1..c : d \notin bad)
                /\ \A c \in 1..Len(cs) :
                      Emitted(nm, c) =>
                          \A i \in 1..Len(BodyOf(cs[c])) :
                              ExpectedBody(BodyOf(cs[c])[i], TextsOf(cs[c]))
                                  \in Constraints(L, c)
                /\ (bad # {}) =>
                      LET cl == cs[Min(bad)]
                          b == BodyOf(cl)[Min(Unbound(cl))]
                          vs == BodyVariables(b)
                          v == vs[Min({i \in 1..Len(vs) :
                                         \A j \in 1..Len(TextsOf(cl)) :
                                             TextsOf(cl)[j] # vs[i]})]
                      IN  /\ pc = "fatal"
                          /\ exit = 1
                          /\ stderr = <<"qa-prolog: Internal error: Failed to convert variable "
                                        \o v \o " from Prolog to Verilog">>
                /\ (bad = {}) => Complete(nm)

\* foo(X) :- X < 42.   foo(Yz) :- X < 42.
C10_Witness ==
    /\ pc = "fatal"
    /\ DOMAIN p.TopLevel = {"foo"}
    /\ Len(p.TopLevel["foo"]) = 2
    /\ TextsOf(p.TopLevel["foo"][1]) = <<"X">>
    /\ TextsOf(p.TopLevel["foo"][2]) = <<"Yz">>
    /\ Constraints(Section("foo"), 1) = {"$A < 42"}
    /\ ~Emitted("foo", 2)
    /\ stderr = <<"qa-prolog: Internal error: Failed to convert variable X from Prolog to Verilog">>

\* C8: two runs of WriteVerilog on the same Parameters write the same text:
\* the header, then one constant per entry of the symbol table with its
\* index as value, then one module per group, each after a blank line.
C8_Deterministic ==
    (pc = "done") =>
        /\ SubSeq(w, 1, 8) = writeHeader(p)
        /\ w[9] = "// Define all of the symbols used in this program."
        /\ \A i \in 1..Len(p.IntToSym) :
              /\ HasPrefix(w[9 + i], Backtick \o "define " \o p.IntToSym[i] \o " ")
              /\ HasSuffix(w[9 + i], " " \o Itoa(i - 1))
        /\ \A nm \in DOMAIN p.TopLevel :
              \E i \in (10 + Len(p.IntToSym))..Len(w) :
                  w[i] = "" /\ w[i + 1] = "// Define " \o nm \o "."
        /\ prev.ran => w = prev.w

====
